---- MODULE Spec2Model ----
(***************************************************************************)
(* Model of generate_report.py: the pipeline of main() from the three      *)
(* tables (tasks, user stories, epics) to the two pivoted calendar series. *)
(*                                                                         *)
(* A date is the number of days since 2024-01-01 (a Monday), a string is   *)
(* a sequence of one-character strings, a table is a sequence of records,  *)
(* and an hour value is an exact fraction <<numerator, denominator>> in    *)
(* lowest terms (the float division of the code without its rounding).     *)
(***************************************************************************)
EXTENDS Integers, Sequences, FiniteSets, TLC

VARIABLES
    pc,                        \* position in main()
    holiday_list,              \* the list get_task_daily_df reads
    epics_csv,                 \* epics as read from epics.csv
    tasks,                     \* tasks after preprocess_tasks
    userstories,               \* user stories after preprocess_userstories
    epics,                     \* epics after preprocess_epics
    merge_data_df,             \* result of merge_data
    task_daily_df,             \* result of get_task_daily_df
    assignee_hour_per_day_df,  \* result of get_assignee_hour_per_day_df
    project_hour_per_day_df    \* result of get_project_hour_per_day_df

vars == <<pc, holiday_list, epics_csv, tasks, userstories, epics, merge_data_df,
          task_daily_df, assignee_hour_per_day_df, project_hour_per_day_df>>

-----------------------------------------------------------------------------
(* Missing values and exact fractions                                      *)

\* pandas' missing value in a column of strings
NaN == "NaN"

\* the missing value in a column of lists of digits, and in a column of numbers
NaNList == <<NaN>>

NaNInt == 0 - 1

RECURSIVE GCD(_, _)
GCD(a, b) == IF b = 0 THEN a ELSE GCD(b, a % b)

\* n / d for d > 0, in lowest terms
Frac(n, d) == LET g == GCD(n, d) IN <<n \div g, d \div g>>

FracAdd(x, y) == Frac(x[1] * y[2] + y[1] * x[2], x[2] * y[2])

FracZero == <<0, 1>>

\* a missing numeric cell: no fraction has denominator 0
FracNaN == <<0, 0>>

-----------------------------------------------------------------------------
(* Calendar                                                                *)

IsLeap(y) == (y % 4 = 0 /\ y % 100 # 0) \/ y % 400 = 0

DaysInMonth(y, m) ==
    IF m = 2 THEN (IF IsLeap(y) THEN 29 ELSE 28)
    ELSE IF m \in {4, 6, 9, 11} THEN 30 ELSE 31

RECURSIVE DaysBeforeMonth(_, _)
DaysBeforeMonth(y, m) ==
    IF m = 1 THEN 0 ELSE DaysBeforeMonth(y, m - 1) + DaysInMonth(y, m - 1)

\* pd.to_datetime of a "2024/mm/dd" literal, as days since 2024-01-01
to_datetime(ymd) == DaysBeforeMonth(ymd[1], ymd[2]) + ymd[3] - 1

\* pd.Timestamp.weekday(): 0 is Monday, 5 Saturday, 6 Sunday
weekday(date) == date % 7

\* pd.date_range(start, end): every day from start to end, empty if end < start
date_range(start_date, end_date) ==
    [i \in 1..(end_date - start_date + 1) |-> start_date + i - 1]

get_holiday_list_with_friday ==
    { to_datetime(d) : d \in
        { <<2024, 1, 1>>, <<2024, 2, 12>>, <<2024, 2, 26>>, <<2024, 4, 8>>,
          <<2024, 4, 15>>, <<2024, 4, 16>>, <<2024, 5, 1>>, <<2024, 5, 3>>,
          <<2024, 5, 6>>, <<2024, 5, 22>>, <<2024, 6, 3>>, <<2024, 7, 22>>,
          <<2024, 7, 29>>, <<2024, 8, 12>>, <<2024, 10, 14>>, <<2024, 10, 23>>,
          <<2024, 12, 5>>, <<2024, 12, 10>>, <<2024, 12, 31>> } }

get_holiday_list ==
    { to_datetime(d) : d \in
        { <<2024, 1, 1>>, <<2024, 2, 12>>, <<2024, 2, 26>>, <<2024, 4, 8>>,
          <<2024, 4, 15>>, <<2024, 4, 16>>, <<2024, 5, 1>>, <<2024, 5, 6>>,
          <<2024, 5, 22>>, <<2024, 6, 3>>, <<2024, 7, 22>>, <<2024, 7, 29>>,
          <<2024, 8, 12>>, <<2024, 10, 14>>, <<2024, 10, 23>>, <<2024, 12, 5>>,
          <<2024, 12, 10>>, <<2024, 12, 31>> } }

-----------------------------------------------------------------------------
(* preprocess_epics                                                        *)

IsDigit(c) == c \in {"0", "1", "2", "3", "4", "5", "6", "7", "8", "9"}

DigitVal(c) ==
    CASE c = "0" -> 0 [] c = "1" -> 1 [] c = "2" -> 2 [] c = "3" -> 3
      [] c = "4" -> 4 [] c = "5" -> 5 [] c = "6" -> 6 [] c = "7" -> 7
      [] c = "8" -> 8 [] c = "9" -> 9

\* last index of the run of digits of s that starts at i (s[i] is a digit)
RECURSIVE DigitRunEnd(_, _)
DigitRunEnd(s, i) ==
    IF i + 1 <= Len(s) /\ IsDigit(s[i + 1]) THEN DigitRunEnd(s, i + 1) ELSE i

\* re.findall(r"#(\d+)", s) from index i on: the digit groups of the
\* non-overlapping matches, scanning left to right, in order of occurrence
RECURSIVE FindallFrom(_, _)
FindallFrom(s, i) ==
    IF i > Len(s) THEN <<>>
    ELSE IF s[i] = "#" /\ i + 1 <= Len(s) /\ IsDigit(s[i + 1])
         THEN LET j == DigitRunEnd(s, i + 1)
              IN  <<SubSeq(s, i + 1, j)>> \o FindallFrom(s, j + 1)
         ELSE FindallFrom(s, i + 1)

findall(s) == FindallFrom(s, 1)

\* int("12"): the value of a string of decimal digits
RECURSIVE astype_int(_)
astype_int(digits) ==
    IF digits = <<>> THEN 0
    ELSE 10 * astype_int(SubSeq(digits, 1, Len(digits) - 1))
         + DigitVal(digits[Len(digits)])

\* DataFrame.explode of one row: a row per list element, in order, and one
\* row holding NaN for an empty list
explode_row(row) ==
    LET found == findall(row.related_user_stories)
    IN  IF found = <<>>
        THEN << [epic_id |-> row.ref, subject |-> row.subject, userstory_id |-> NaNList] >>
        ELSE [k \in 1..Len(found) |->
                [epic_id |-> row.ref, subject |-> row.subject, userstory_id |-> found[k]]]

RECURSIVE explode(_)
explode(df) ==
    IF df = <<>> THEN <<>> ELSE explode_row(Head(df)) \o explode(Tail(df))

\* preprocess_epics: ok is FALSE when astype(int) raises on a NaN
preprocess_epics(df) ==
    LET exploded == explode(df)
    IN  IF \E k \in 1..Len(exploded) : exploded[k].userstory_id = NaNList
        THEN [ok |-> FALSE, df |-> <<>>]
        ELSE [ok |-> TRUE,
              df |-> [k \in 1..Len(exploded) |->
                        [epic_id      |-> exploded[k].epic_id,
                         userstory_id |-> astype_int(exploded[k].userstory_id),
                         epic_name    |-> exploded[k].subject]]]

-----------------------------------------------------------------------------
(* merge_data                                                              *)

validate_off(right) == TRUE

\* validate="m:1": the join key is unique in the right table
validate_m1(right) ==
    \A i, j \in 1..Len(right) :
        right[i].userstory_id = right[j].userstory_id => i = j

Matching(right, key) == SelectSeq(right, LAMBDA r : r.userstory_id = key)

\* tasks left-joined with userstories on userstory_id
RECURSIVE merge_userstories(_, _)
merge_userstories(left, right) ==
    IF left = <<>> THEN <<>>
    ELSE LET l == Head(left)
             m == Matching(right, l.userstory_id)
             row(who) == [task_id |-> l.task_id,
                          userstory_id |-> l.userstory_id,
                          assigned_to_task |-> l.assigned_to,
                          assigned_to_userstory |-> who,
                          start_date |-> l.start_date,
                          end_date |-> l.end_date,
                          actual_time |-> l.actual_time]
         IN  (IF m = <<>> THEN << row(NaN) >>
              ELSE [k \in 1..Len(m) |-> row(m[k].assigned_to)])
             \o merge_userstories(Tail(left), right)

\* the first merge left-joined with the exploded epics on userstory_id
RECURSIVE merge_epics(_, _)
merge_epics(left, right) ==
    IF left = <<>> THEN <<>>
    ELSE LET l == Head(left)
             m == Matching(right, l.userstory_id)
             row(id, name) == [task_id |-> l.task_id,
                               userstory_id |-> l.userstory_id,
                               assigned_to_task |-> l.assigned_to_task,
                               assigned_to_userstory |-> l.assigned_to_userstory,
                               start_date |-> l.start_date,
                               end_date |-> l.end_date,
                               actual_time |-> l.actual_time,
                               epic_id |-> id,
                               epic_name |-> name]
         IN  (IF m = <<>> THEN << row(NaNInt, NaN) >>
              ELSE [k \in 1..Len(m) |-> row(m[k].epic_id, m[k].epic_name)])
             \o merge_epics(Tail(left), right)

\* merge_data with validate="m:1" left out of the second merge
merge_data_unchecked_epics(t, u, e) ==
    IF ~validate_m1(u) THEN [ok |-> FALSE, df |-> <<>>]
    ELSE [ok |-> TRUE, df |-> merge_epics(merge_userstories(t, u), e)]

\* merge_data: ok is FALSE when a merge raises MergeError
merge_data(t, u, e) ==
    IF ~validate_m1(u) THEN [ok |-> FALSE, df |-> <<>>]
    ELSE IF ~validate_m1(e) THEN [ok |-> FALSE, df |-> <<>>]
    ELSE [ok |-> TRUE, df |-> merge_epics(merge_userstories(t, u), e)]

-----------------------------------------------------------------------------
(* validate_start_date_end_date, get_work_day, get_task_daily_df           *)

\* the while loop of validate_start_date_end_date
RECURSIVE skip_holidays(_, _)
skip_holidays(date, holidays) ==
    IF date \in holidays THEN skip_holidays(date + 1, holidays) ELSE date

\* the weekend step taken as "the next day" instead of "the next Monday"
skip_weekend_one_day(date) ==
    IF weekday(date) \in {5, 6} THEN date + 1 ELSE date

\* the weekend step of validate_start_date_end_date
skip_weekend(date) ==
    IF weekday(date) \in {5, 6} THEN date + (7 - weekday(date)) ELSE date

validate_start_date_end_date(date, holidays) ==
    skip_holidays(skip_weekend(date), holidays)

\* get_work_day that forgets the holidays
get_work_day_weekdays_only(start_date, end_date, holidays) ==
    LET range == date_range(start_date, end_date)
        work_day == Cardinality({i \in 1..Len(range) : weekday(range[i]) \notin {5, 6}})
    IN  IF work_day = 0 THEN 1 ELSE work_day

get_work_day(start_date, end_date, holidays) ==
    LET range == date_range(start_date, end_date)
        work_day == Cardinality({i \in 1..Len(range) :
                                    /\ range[i] \notin holidays
                                    /\ weekday(range[i]) \notin {5, 6}})
    IN  IF work_day = 0 THEN 1 ELSE work_day

\* the clamped range of one row: lines 120-125
valid_range(row, holidays) ==
    LET start_date == validate_start_date_end_date(row.start_date, holidays)
        end_date   == validate_start_date_end_date(row.end_date, holidays)
    IN  [start_date |-> start_date,
         end_date   |-> IF end_date < start_date THEN start_date ELSE end_date]

\* the inner loop written without its holiday test
emitted_dates_with_holidays(range, holidays) ==
    SelectSeq(range, LAMBDA date : weekday(date) \notin {5, 6})

\* the dates the inner loop of get_task_daily_df appends a record for
emitted_dates(range, holidays) ==
    SelectSeq(range, LAMBDA date : weekday(date) \notin {5, 6} /\ date \notin holidays)

\* the records one row of merge_data_df adds to task_daily_list
task_daily_rows(row, holidays) ==
    LET v          == valid_range(row, holidays)
        total_date == get_work_day(v.start_date, v.end_date, holidays)
        hour       == Frac(row.actual_time, total_date)
        dates      == emitted_dates(date_range(v.start_date, v.end_date), holidays)
    IN  [k \in 1..Len(dates) |->
            [date      |-> dates[k],
             assignee  |-> row.assigned_to_task,
             epic_name |-> row.epic_name,
             task_id   |-> row.task_id,
             hour      |-> hour]]

RECURSIVE get_task_daily_df(_, _)
get_task_daily_df(df, holidays) ==
    IF df = <<>> THEN <<>>
    ELSE task_daily_rows(Head(df), holidays) \o get_task_daily_df(Tail(df), holidays)

-----------------------------------------------------------------------------
(* get_assignee_hour_per_day_df, get_project_hour_per_day_df               *)

\* Both functions run the same steps, on the column named Key: "assignee"
\* in one, "epic_name" in the other.

\* the groups of groupby(["date", Key]): its default dropna=True leaves out
\* every record whose key is NaN
groups(df, Key) ==
    { <<df[i].date, df[i][Key]>> : i \in {j \in 1..Len(df) : df[j][Key] # NaN} }

\* agg({"hour": "sum"}) of one group: the records are added in list order
RECURSIVE agg_sum(_, _, _, _)
agg_sum(df, Key, g, i) ==
    IF i > Len(df) THEN FracZero
    ELSE IF df[i].date = g[1] /\ df[i][Key] = g[2]
         THEN FracAdd(df[i].hour, agg_sum(df, Key, g, i + 1))
         ELSE agg_sum(df, Key, g, i + 1)

\* pivot(index="date", columns=Key, values="hour"): a cell without a group is NaN
pivot(df, Key) ==
    LET gs == groups(df, Key)
        index == { g[1] : g \in gs }
        columns == { g[2] : g \in gs }
    IN  [index   |-> index,
         columns |-> columns,
         hour    |-> [c \in index \X columns |->
                        IF c \in gs THEN agg_sum(df, Key, c, 1) ELSE FracNaN]]

\* the pivot table passed on without fillna(0)
fillna_skipped(table) == table

\* fillna(0)
fillna(table) ==
    [table EXCEPT !.hour = [c \in DOMAIN table.hour |->
                              IF table.hour[c] = FracNaN THEN FracZero
                              ELSE table.hour[c]]]

SetMin(S) == CHOOSE x \in S : \A y \in S : x <= y
SetMax(S) == CHOOSE x \in S : \A y \in S : x >= y

\* reindex(date_range, fill_value=0) then reset_index and rename: the rows
\* are the dates of new_index in order, a date not in the table gets 0
reindex(table, new_index) ==
    [ok      |-> TRUE,
     date    |-> new_index,
     columns |-> table.columns,
     hour    |-> [c \in {new_index[i] : i \in 1..Len(new_index)} \X table.columns |->
                    IF c[1] \in table.index THEN table.hour[c] ELSE FracZero]]

\* the value of a frame that was never built (the call raised)
NoFrame == [ok |-> FALSE, date |-> <<>>, columns |-> {}, hour |-> <<>>]

\* The steps of lines 152-173 and 177-190. An empty list gives a frame
\* without columns, on which groupby raises KeyError; a list whose keys are
\* all NaN gives an empty pivot table, whose index.min() is NaN, on which
\* pd.date_range raises ValueError.
hour_per_day_df(df, Key) ==
    LET table == fillna(pivot(df, Key))
    IN  IF df = <<>> \/ table.index = {} THEN NoFrame
        ELSE reindex(table, date_range(SetMin(table.index), SetMax(table.index)))

get_assignee_hour_per_day_df(df) == hour_per_day_df(df, "assignee")

get_project_hour_per_day_df(df) == hour_per_day_df(df, "epic_name")

-----------------------------------------------------------------------------
(* main                                                                    *)

\* lines 304-306
Preprocess ==
    /\ pc = "start"
    /\ LET r == preprocess_epics(epics_csv)
       IN  /\ epics' = r.df
           /\ pc' = IF r.ok THEN "preprocessed" ELSE "error_preprocess"
    /\ UNCHANGED <<holiday_list, epics_csv, tasks, userstories, merge_data_df,
                   task_daily_df, assignee_hour_per_day_df, project_hour_per_day_df>>

\* line 308
MergeData ==
    /\ pc = "preprocessed"
    /\ LET r == merge_data(tasks, userstories, epics)
       IN  /\ merge_data_df' = r.df
           /\ pc' = IF r.ok THEN "merged" ELSE "error_merge"
    /\ UNCHANGED <<holiday_list, epics_csv, tasks, userstories, epics,
                   task_daily_df, assignee_hour_per_day_df, project_hour_per_day_df>>

\* line 313
GetTaskDaily ==
    /\ pc = "merged"
    /\ task_daily_df' = get_task_daily_df(merge_data_df, holiday_list)
    /\ pc' = "daily"
    /\ UNCHANGED <<holiday_list, epics_csv, tasks, userstories, epics,
                   merge_data_df, assignee_hour_per_day_df, project_hour_per_day_df>>

\* line 314
GetAssigneeHourPerDay ==
    /\ pc = "daily"
    /\ LET r == get_assignee_hour_per_day_df(task_daily_df)
       IN  /\ assignee_hour_per_day_df' = r
           /\ pc' = IF r.ok THEN "assignee" ELSE "error_assignee"
    /\ UNCHANGED <<holiday_list, epics_csv, tasks, userstories, epics,
                   merge_data_df, task_daily_df, project_hour_per_day_df>>

\* line 315
GetProjectHourPerDay ==
    /\ pc = "assignee"
    /\ LET r == get_project_hour_per_day_df(task_daily_df)
       IN  /\ project_hour_per_day_df' = r
           /\ pc' = IF r.ok THEN "done" ELSE "error_project"
    /\ UNCHANGED <<holiday_list, epics_csv, tasks, userstories, epics,
                   merge_data_df, task_daily_df, assignee_hour_per_day_df>>

Next ==
    \/ Preprocess
    \/ MergeData
    \/ GetTaskDaily
    \/ GetAssigneeHourPerDay
    \/ GetProjectHourPerDay

-----------------------------------------------------------------------------
(* Inputs                                                                  *)

MaxSpan == 4
WinLen == 6
MaxText == 4
MaxRows == 2

\* Monday 2024-04-29; the window holds the holiday of Wednesday 2024-05-01
\* and ends before the one of Monday 2024-05-06
WinStart == to_datetime(<<2024, 4, 29>>)
Window == WinStart..(WinStart + WinLen)
Spans == (0 - 1)..MaxSpan

Task(id, us, who, s, e, a) ==
    [task_id |-> id, userstory_id |-> us, assigned_to |-> who,
     start_date |-> s, end_date |-> e, actual_time |-> a]

UserStory(id, who) == [userstory_id |-> id, assigned_to |-> who]

Epic(id, name, text) == [ref |-> id, subject |-> name, related_user_stories |-> text]

SeqsUpTo(S, n) == UNION { [1..k -> S] : k \in 0..n }

InitFrom(H, E, T, U) ==
    /\ pc = "start"
    /\ holiday_list \in H
    /\ epics_csv \in E
    /\ tasks \in T
    /\ userstories \in U
    /\ epics = <<>>
    /\ merge_data_df = <<>>
    /\ task_daily_df = <<>>
    /\ assignee_hour_per_day_df = NoFrame
    /\ project_hour_per_day_df = NoFrame

\* user story 1 belongs to epic "web", 3 to epic "app", 2 to no epic, and
\* no user story 4 exists
SomeUserStories == << UserStory(1, "ann"), UserStory(2, "bob"), UserStory(3, NaN) >>
SomeEpics == << Epic(10, "web", <<"#", "1">>), Epic(11, "app", <<"#", "3">>) >>

\* Two tasks in the window, with the shipped holiday list.
Init ==
    InitFrom({get_holiday_list}, {SomeEpics},
             { << Task(1, 1, "ann", s1, s1 + d1, 8), Task(2, us, who, s2, s2 + d2, 5) >> :
                 <<s1, d1, s2, d2, us, who>> \in
                     Window \X Spans \X Window \X Spans \X (1..4) \X {"ann", "bob", NaN} },
             {SomeUserStories})

Spec == Init /\ [][Next]_vars

\* One task anywhere in 2024 and a week around it, with the shipped holiday list.
InitShipped ==
    InitFrom({get_holiday_list}, {SomeEpics},
             { << Task(1, 1, "ann", s, s + d, 8) >> :
                 <<s, d>> \in ((to_datetime(<<2024, 1, 1>>) - 7)
                                  ..(to_datetime(<<2024, 12, 31>>) + 7)) \X Spans },
             {SomeUserStories})

SpecShipped == InitShipped /\ [][Next]_vars

\* Any holiday list within the window (holiday_list is a parameter of
\* validate_start_date_end_date and get_work_day; the shipped list is one
\* such list); one task anywhere in the window and one task that starts and
\* ends on its Friday.
InitDates ==
    InitFrom(SUBSET ((WinStart + 2)..(WinStart + WinLen + 1)), {SomeEpics},
             { << Task(1, 1, "ann", s, s + d, a), Task(2, 3, "bob", WinStart + 4, WinStart + 4, 5) >> :
                 <<s, d, a>> \in Window \X Spans \X {0, 8} },
             {SomeUserStories})

SpecDates == InitDates /\ [][Next]_vars

\* Any tables of at most MaxRows tasks and MaxRows + 1 user stories, and two
\* epics with any of four cross-reference fields.
InitMerge ==
    InitFrom({get_holiday_list},
             { << Epic(10, "web", t1), Epic(11, "app", t2) >> :
                 <<t1, t2>> \in
                     LET Texts == { <<"#", "1">>, <<"#", "2">>, <<"#", "3">>,
                                    <<"#", "1", ",", "#", "2">> }
                     IN  Texts \X Texts },
             { [i \in 1..Len(us) |-> Task(i, us[i], "ann", WinStart, WinStart + 1, 8)] :
                 us \in SeqsUpTo(1..3, MaxRows) \ {<<>>} },
             { [i \in 1..Len(ids) |-> UserStory(ids[i], "bob")] :
                 ids \in SeqsUpTo(1..2, MaxRows + 1) })

SpecMerge == InitMerge /\ [][Next]_vars

\* Any cross-reference field of at most MaxText characters in the first epic.
InitEpics ==
    InitFrom({get_holiday_list},
             { << Epic(10, "web", t), Epic(11, "app", <<"#", "2">>) >> :
                 t \in SeqsUpTo({"#", "1", "2", ","}, MaxText) },
             { << Task(1, 1, "ann", WinStart, WinStart + 1, 8) >> },
             {SomeUserStories})

SpecEpics == InitEpics /\ [][Next]_vars

-----------------------------------------------------------------------------
(* Properties                                                              *)

\* merge_data has returned a table
Merged == pc \in {"merged", "daily", "assignee", "done", "error_assignee", "error_project"}

\* get_task_daily_df has returned
Expanded == pc \in {"daily", "assignee", "done", "error_assignee", "error_project"}

WorkingDay(date, holidays) == weekday(date) \notin {5, 6} /\ date \notin holidays

\* The normalize procedure as the specification words it.
FollowingMonday(date) == CHOOSE m \in (date + 1)..(date + 7) : weekday(m) = 0

FirstNonHoliday(date, holidays) ==
    CHOOSE x \in date..(date + Cardinality(holidays)) :
        x \notin holidays /\ \A y \in date..(x - 1) : y \in holidays

NormalizeOne(date, holidays) ==
    FirstNonHoliday(IF weekday(date) \in {5, 6} THEN FollowingMonday(date) ELSE date,
                    holidays)

Normalize(start_date, end_date, holidays) ==
    LET s == NormalizeOne(start_date, holidays)
        e == NormalizeOne(end_date, holidays)
    IN  [start_date |-> s, end_date |-> IF e < s THEN s ELSE e]

\* the working days of a task's normalized range
WorkingDays(row, holidays) ==
    LET n == Normalize(row.start_date, row.end_date, holidays)
    IN  { d \in n.start_date..n.end_date : WorkingDay(d, holidays) }

\* the allocation records of a task, as indices into task_daily_df
RecordsOf(task_id) == { j \in 1..Len(task_daily_df) : task_daily_df[j].task_id = task_id }

\* the sum of hour over a set of allocation records
RECURSIVE HourSum(_)
HourSum(S) ==
    IF S = {} THEN FracZero
    ELSE LET j == CHOOSE x \in S : TRUE
         IN  FracAdd(task_daily_df[j].hour, HourSum(S \ {j}))

\* C1: the hours of the allocation records of a task add up to its actual
\* time, unless its normalized range holds no working day, and then the task
\* has no allocation record.
C1_HoursSumToActualTime ==
    Expanded =>
        \A i \in 1..Len(merge_data_df) :
            LET row == merge_data_df[i]
            IN  IF WorkingDays(row, holiday_list) = {}
                THEN RecordsOf(row.task_id) = {}
                ELSE HourSum(RecordsOf(row.task_id)) = Frac(row.actual_time, 1)

\* the first task has three records of 8/3 hours, the second task's range
\* is the Saturday after its holiday Friday and it has no record
C1_Witness ==
    /\ pc = "daily"
    /\ Len(merge_data_df) = 2
    /\ WorkingDays(merge_data_df[2], holiday_list) = {}
    /\ RecordsOf(2) = {}
    /\ Cardinality(RecordsOf(1)) = 3
    /\ \A j \in RecordsOf(1) : task_daily_df[j].hour = <<8, 3>>

\* C8: the range get_task_daily_df uses is the normalize procedure of the
\* specification: each endpoint moved to the following Monday if it is on a
\* weekend, then advanced to the first day that is no holiday, the end set
\* to the start if it precedes it; so start <= end and neither is a holiday.
C8_RangeIsNormalize ==
    \A i \in 1..Len(merge_data_df) :
        LET row == merge_data_df[i]
            v == valid_range(row, holiday_list)
        IN  /\ v = Normalize(row.start_date, row.end_date, holiday_list)
            /\ v.start_date <= v.end_date
            /\ v.start_date \notin holiday_list
            /\ v.end_date \notin holiday_list

\* a start on Saturday goes to Monday, a holiday, then to Tuesday; the end,
\* a holiday Friday, goes to Saturday, precedes the start and is clamped
C8_Witness ==
    /\ pc = "daily"
    /\ LET row == merge_data_df[1]
           v == valid_range(row, holiday_list)
       IN  /\ weekday(row.start_date) = 5
           /\ row.end_date = row.start_date - 1
           /\ row.end_date \in holiday_list
           /\ row.start_date + 2 \in holiday_list
           /\ v.start_date = row.start_date + 3
           /\ v.end_date = v.start_date
           /\ validate_start_date_end_date(row.end_date, holiday_list) = row.start_date

\* C9: a task has exactly one allocation record on each working day of its
\* normalized range and none on any other date, and each of its records
\* holds actual_time / working_day_count, its assignee, epic name and id.
C9_OneRecordPerWorkingDay ==
    Expanded =>
        \A i \in 1..Len(merge_data_df) :
            LET row == merge_data_df[i]
                W == WorkingDays(row, holiday_list)
                R == RecordsOf(row.task_id)
            IN  /\ \A j \in R : task_daily_df[j].date \in W
                /\ \A d \in W : Cardinality({ j \in R : task_daily_df[j].date = d }) = 1
                /\ \A j \in R :
                      /\ task_daily_df[j].hour = Frac(row.actual_time, Cardinality(W))
                      /\ task_daily_df[j].assignee = row.assigned_to_task
                      /\ task_daily_df[j].epic_name = row.epic_name

\* Monday to Friday with a holiday on Wednesday and 8 hours: four records
\* of 2 hours
C9_Witness ==
    /\ pc = "daily"
    /\ holiday_list = {WinStart + 2}
    /\ merge_data_df[1].start_date = WinStart
    /\ merge_data_df[1].end_date = WinStart + 4
    /\ { task_daily_df[j].date : j \in RecordsOf(1) }
           = {WinStart, WinStart + 1, WinStart + 3, WinStart + 4}
    /\ \A j \in RecordsOf(1) : task_daily_df[j].hour = <<2, 1>>

\* C10: with the shipped holiday list every date is normalized to a working
\* day, so every task's range holds a working day, every task has a record
\* and the hours of its records add up to its actual time.
C10_ShippedListNeverDropsATask ==
    /\ \A i \in 1..Len(tasks) :
          /\ WorkingDay(validate_start_date_end_date(tasks[i].start_date, holiday_list),
                         holiday_list)
          /\ WorkingDay(validate_start_date_end_date(tasks[i].end_date, holiday_list),
                         holiday_list)
    /\ Expanded =>
          \A i \in 1..Len(merge_data_df) :
              LET row == merge_data_df[i]
                  v == valid_range(row, holiday_list)
              IN  /\ \E d \in v.start_date..v.end_date : WorkingDay(d, holiday_list)
                  /\ RecordsOf(row.task_id) # {}
                  /\ HourSum(RecordsOf(row.task_id)) = Frac(row.actual_time, 1)

\* a task from Sunday 2024-04-14 to the holiday Tuesday 2024-04-16: both
\* ends go to Wednesday 2024-04-17, which gets the 8 hours
C10_Witness ==
    /\ pc = "daily"
    /\ tasks[1].start_date = to_datetime(<<2024, 4, 14>>)
    /\ tasks[1].end_date = to_datetime(<<2024, 4, 16>>)
    /\ Len(task_daily_df) = 1
    /\ task_daily_df[1].date = to_datetime(<<2024, 4, 17>>)
    /\ task_daily_df[1].hour = <<8, 1>>

\* the identifiers a cross-reference field names as #<integer>
Referenced(text) ==
    { astype_int(SubSeq(text, i + 1, j)) : <<i, j>> \in
        { c \in (1..Len(text)) \X (1..Len(text)) :
            /\ c[1] < c[2]
            /\ text[c[1]] = "#"
            /\ \A k \in (c[1] + 1)..c[2] : IsDigit(text[k])
            /\ (c[2] = Len(text) \/ ~IsDigit(text[c[2] + 1])) } }

\* C6: preprocess_epics returns a table that has, for each epic, exactly
\* one row for each distinct user story its cross-reference field names,
\* with the epic's id and name, and no other row.
C6_OneRowPerDistinctReference ==
    pc # "start" =>
        /\ pc # "error_preprocess"
        /\ \A k \in 1..Len(epics) :
              \E e \in 1..Len(epics_csv) :
                  /\ epics[k].epic_id = epics_csv[e].ref
                  /\ epics[k].epic_name = epics_csv[e].subject
                  /\ epics[k].userstory_id \in Referenced(epics_csv[e].related_user_stories)
        /\ \A e \in 1..Len(epics_csv) :
              \A u \in Referenced(epics_csv[e].related_user_stories) :
                  Cardinality({ k \in 1..Len(epics) :
                                  /\ epics[k].epic_id = epics_csv[e].ref
                                  /\ epics[k].userstory_id = u }) = 1

\* a join key occurs in more than one row of a table
Duplicated(table) ==
    Cardinality({ table[i].userstory_id : i \in 1..Len(table) }) < Len(table)

\* C4: when merge_data returns a table, its rows are the input tasks, each
\* once and in order, and the three input tables are as they were.
C4_MergeKeepsEveryTaskOnce ==
    [][ (pc = "preprocessed" /\ pc' = "merged") =>
            /\ Len(merge_data_df') = Len(tasks)
            /\ \A i \in 1..Len(tasks) :
                  /\ merge_data_df'[i].task_id = tasks[i].task_id
                  /\ merge_data_df'[i].userstory_id = tasks[i].userstory_id
                  /\ merge_data_df'[i].actual_time = tasks[i].actual_time
            /\ tasks' = tasks
            /\ userstories' = userstories
            /\ epics' = epics ]_vars

\* two tasks of one user story, which two rows of the epic table name
\* once each: the merged table has the two tasks
C4_Witness ==
    /\ pc = "merged"
    /\ Len(tasks) = 2
    /\ tasks[1].userstory_id = tasks[2].userstory_id
    /\ Len(userstories) = 2
    /\ Len(epics) = 3
    /\ Len(merge_data_df) = 2
    /\ merge_data_df[1].epic_name = merge_data_df[2].epic_name
    /\ merge_data_df[1].epic_name # NaN

\* C5: merge_data raises, and returns no table, whenever a user story id is
\* in two rows of the user story table or in two rows of the exploded epic
\* table.
C5_DuplicateKeyAborts ==
    [][ (pc = "preprocessed" /\ (Duplicated(userstories) \/ Duplicated(epics))) =>
            (pc' = "error_merge" /\ merge_data_df' = <<>>) ]_vars

\* the user stories are unique, user story 1 is in two epics, a task is in
\* user story 1: the run stops in merge_data without a merged table
C5_Witness ==
    /\ pc = "error_merge"
    /\ ~Duplicated(userstories)
    /\ \E i, j \in 1..Len(epics) :
          /\ epics[i].userstory_id = epics[j].userstory_id
          /\ epics[i].epic_id # epics[j].epic_id
          /\ \E t \in 1..Len(tasks) : tasks[t].userstory_id = epics[i].userstory_id
    /\ merge_data_df = <<>>

\* the dates of the allocation set
ObservedDates == { task_daily_df[j].date : j \in 1..Len(task_daily_df) }

CalendarComplete(frame) ==
    /\ frame.ok
    /\ frame.date = date_range(SetMin(ObservedDates), SetMax(ObservedDates))

\* C2: the rows of both series are the dates from the least to the greatest
\* date of the allocation set, each once, in order.
C2_RowsSpanAllObservedDates ==
    /\ (pc \in {"assignee", "done", "error_project"} /\ task_daily_df # <<>>)
          => CalendarComplete(assignee_hour_per_day_df)
    /\ (pc = "done" /\ task_daily_df # <<>>)
          => CalendarComplete(project_hour_per_day_df)

\* the allocation records of one date and one group key
CellRecords(column, date, key) ==
    { j \in 1..Len(task_daily_df) :
        task_daily_df[j].date = date /\ task_daily_df[j][column] = key }

CellsAreSums(frame, column) ==
    \A i \in 1..Len(frame.date) : \A key \in frame.columns :
        LET cell == frame.hour[<<frame.date[i], key>>]
            R == CellRecords(column, frame.date[i], key)
        IN  /\ cell # FracNaN
            /\ cell = HourSum(R)
            /\ cell[1] >= 0 /\ cell[2] > 0
            /\ R = {} => cell = FracZero

\* C3: in both series the cell of a date and a group key is the sum of the
\* hours of the allocation records of that date and key, is never negative
\* nor missing, and is 0 when there is no such record.
C3_CellsAreSums ==
    /\ pc \in {"assignee", "done", "error_project"}
          => CellsAreSums(assignee_hour_per_day_df, "assignee")
    /\ pc = "done"
          => CellsAreSums(project_hour_per_day_df, "epic_name")

\* the two tasks are in epic "web" and share a day, whose cell adds them
\* up; ann has hours on a day on which bob has none, whose cell is 0; and a
\* day between the records has no record and a row of 0
C3_Witness ==
    /\ pc = "done"
    /\ \E i \in 1..Len(project_hour_per_day_df.date) :
          LET d == project_hour_per_day_df.date[i]
              R == CellRecords("epic_name", d, "web")
          IN  /\ Cardinality(R) = 2
              /\ project_hour_per_day_df.hour[<<d, "web">>] = HourSum(R)
              /\ \A j \in R : project_hour_per_day_df.hour[<<d, "web">>] # task_daily_df[j].hour
    /\ assignee_hour_per_day_df.columns = {"ann", "bob"}
    /\ \E i, k \in 1..Len(assignee_hour_per_day_df.date) :
          LET h(n, who) == assignee_hour_per_day_df.hour[<<assignee_hour_per_day_df.date[n], who>>]
          IN  /\ h(i, "ann") # FracZero /\ h(i, "bob") = FracZero
              /\ assignee_hour_per_day_df.date[k] \notin ObservedDates
              /\ h(k, "ann") = FracZero /\ h(k, "bob") = FracZero

\* C7: a task whose user story or epic is not found stays in the merged
\* table with epic_name NaN, the run does not fail, and the hours of its
\* records are in the per-project series in a column of their own (as are
\* those of a task without assignee in the per-assignee series).
C7_UnresolvedTaskIsKept ==
    /\ Merged =>
          \A t \in 1..Len(tasks) :
              (\A k \in 1..Len(epics) : epics[k].userstory_id # tasks[t].userstory_id)
                  => /\ Len(merge_data_df) = Len(tasks)
                     /\ merge_data_df[t].task_id = tasks[t].task_id
                     /\ merge_data_df[t].epic_name = NaN
    /\ pc \notin {"error_assignee", "error_project"}
    /\ pc = "done" =>
          \A j \in 1..Len(task_daily_df) :
              /\ task_daily_df[j].epic_name \in project_hour_per_day_df.columns
              /\ task_daily_df[j].assignee \in assignee_hour_per_day_df.columns

====
